---- MODULE Spec2Model ----
(***************************************************************************)
(* A model of shell.c: the supervisor loop of main, the recursive line     *)
(* interpreter continueProcessingLine, the pipeline builder doPipe, the    *)
(* five redirection routines, the command launcher run, and the SIGINT     *)
(* handler.  Every process of the model runs the same program text, as     *)
(* fork() makes it: a process is a record holding its position, its        *)
(* descriptor table and the C variables the code keeps per process.        *)
(***************************************************************************)
EXTENDS Integers, Sequences, FiniteSets, TLC

\* procs: the processes, by process ID
\* files: the names of the files that exist
\* handler: the run of signalHandler that led to the state, if one did: the
\*          process it ran in and the kill() calls it made
VARIABLES procs, files, handler

vars == <<procs, files, handler>>

(***************************************************************************)
(* Bounds of the model.                                                    *)
(***************************************************************************)
MaxProcs == 5
NumFds == 8
MaxStops == 1
MaxStages == 3
MaxNesting == 1

(***************************************************************************)
(* Program constants.                                                      *)
(***************************************************************************)
SIGINT == 2
ShellPid == 3
STDIN_FILENO == 0
STDOUT_FILENO == 1
STDERR_FILENO == 2

ExecFailStatus == 1
ForkFailStatus == 2
PipeFailStatus == 4
OpenFailStatus == 1

(***************************************************************************)
(* Tokens.  A token is a C string, modelled as the tuple of its            *)
(* characters, so that strlen and indexing are what they are in C.  The    *)
(* NULL pointer that ends a line or an argument vector is the empty tuple  *)
(* (the tokenizer never yields an empty string).                           *)
(***************************************************************************)
NULL == <<>>
T_GT == <<">">>
T_APPEND == <<">", ">">>
T_LT == <<"<">>
T_ERR == <<"2", ">">>
T_BOTH == <<"&", ">">>
T_PIPE == <<"|">>
T_ONE == <<"1", ">">>
T_A == <<"/", "a">>
T_B == <<"/", "b">>
T_X == <<"x">>
T_LS == <<"l", "s">>
T_RM == <<"r", "m">>
T_EXIT == <<"e", "x", "i", "t">>
T_F == <<"f">>
T_G == <<"g">>

RedirOps == {T_APPEND, T_ERR, T_BOTH, T_GT, T_LT}
Operators == RedirOps \cup {T_PIPE}

\* the programs execv can start: the files that are executables
Executables == {T_A, T_B}

(***************************************************************************)
(* The lines the tokenizer (getArgList) can hand to the shell.             *)
(***************************************************************************)
StageCmds == {<<T_A>>, <<T_B>>}

\* the pipelines of n stages in which no stage repeats the command before it
RECURSIVE Pipelines(_)
Pipelines(n) ==
    IF n = 1 THEN StageCmds
    ELSE UNION {{l \o <<T_PIPE>> \o c : c \in StageCmds \ {<<l[Len(l)]>>}} :
                    l \in Pipelines(n - 1)}

PipeLines == UNION {Pipelines(n) : n \in 2..MaxStages}

PlainLines ==
    { <<>>, <<T_EXIT>>, <<T_A>>, <<T_A, T_F>>, <<T_X>>,
      <<T_LS>>, <<T_RM>>, <<T_RM, T_F>> }

RedirLines == {<<T_A, op, f>> : op \in RedirOps, f \in {T_F, T_G}}

TwoRedirLines == {<<T_A, o1, T_F, o2, T_G>> : o1 \in RedirOps, o2 \in RedirOps}

RedirPipeLines ==
    {<<T_A, op, T_G, T_PIPE, T_B>> : op \in RedirOps}
        \cup {<<T_A, T_PIPE, T_B, T_GT, T_G>>}

TrailingOpLines == {<<T_A, op>> : op \in Operators}

LeadingOpLines == {<<op, T_F>> : op \in Operators}

OddLines ==
    { <<T_A, T_ONE, T_G>>, <<T_A, T_GT, T_G, T_B>>,
      <<T_A, T_PIPE, T_LS>>, <<T_LS, T_PIPE, T_A>>,
      <<T_X, T_PIPE, T_A, T_LT, T_G>> }

Lines ==
    PlainLines \cup RedirLines \cup TwoRedirLines \cup RedirPipeLines
        \cup PipeLines \cup TrailingOpLines \cup LeadingOpLines \cup OddLines

\* line[i] with C's 0-based index; the sentinel sits at index Len(line)
At(line, i) == IF i < Len(line) THEN line[i + 1] ELSE NULL

(***************************************************************************)
(* isSpecial and parseArgs.                                                *)
(***************************************************************************)
IsSpecial(token) ==
    \/ Len(token) = 1 /\ token[1] \in {"<", ">", "|"}
    \/ Len(token) = 2 /\ token[2] = ">"

\* the index parseArgs leaves in *lineIndex when started at index i
RECURSIVE ParseEnd(_, _)
ParseEnd(line, i) ==
    IF At(line, i) # NULL /\ ~IsSpecial(At(line, i))
    THEN ParseEnd(line, i + 1)
    ELSE i

\* the argument vector parseArgs fills in (without its NULL terminator)
ParseArgs(line, i) == SubSeq(line, i + 1, ParseEnd(line, i))

(***************************************************************************)
(* Descriptor tables.  A descriptor refers to the terminal, to one end of  *)
(* a pipe, or to a file opened with some flags; CLOSED is a free slot.     *)
(***************************************************************************)
Fds == 0..(NumFds - 1)
CLOSED == [kind |-> "closed", pipe |-> 0, end |-> "-", file |-> NULL, flags |-> {}]
TTY == [kind |-> "tty", pipe |-> 0, end |-> "-", file |-> NULL, flags |-> {}]
PipeEnd(k, e) == [kind |-> "pipe", pipe |-> k, end |-> e, file |-> NULL, flags |-> {}]
FileDesc(f, fl) == [kind |-> "file", pipe |-> 0, end |-> "-", file |-> f, flags |-> fl]

InitFds == [fd \in Fds |-> IF fd <= STDERR_FILENO THEN TTY ELSE CLOSED]

FreeFds(fds) == {fd \in Fds : fds[fd] = CLOSED}
LowestFree(fds) == CHOOSE fd \in FreeFds(fds) : \A g \in FreeFds(fds) : fd <= g

Dup2(fds, old, new) == [fds EXCEPT ![new] = fds[old]]
Close(fds, fd) == [fds EXCEPT ![fd] = CLOSED]

\* the flags each redirection routine passes to open
AppendFlags == {"O_CREAT", "O_APPEND", "O_WRONLY"}
StdoutFlags == {"O_CREAT", "O_TRUNC", "O_WRONLY"}
StderrFlags == {"O_CREAT", "O_TRUNC", "O_WRONLY"}
StdoutStderrFlags == {"O_CREAT", "O_TRUNC", "O_WRONLY"}
StdinFlags == {"O_RDONLY"}

OpenFlags(op) ==
    CASE op = T_APPEND -> AppendFlags
      [] op = T_GT -> StdoutFlags
      [] op = T_ERR -> StderrFlags
      [] op = T_BOTH -> StdoutStderrFlags
      [] op = T_LT -> StdinFlags

\* the streams each redirection routine rebinds with dup2
Rebinds(op) ==
    CASE op = T_APPEND -> {STDOUT_FILENO}
      [] op = T_GT -> {STDOUT_FILENO}
      [] op = T_ERR -> {STDERR_FILENO}
      [] op = T_BOTH -> {STDOUT_FILENO, STDERR_FILENO}
      [] op = T_LT -> {STDIN_FILENO}

\* open(2) can succeed: a name is given, a slot is free, and the file
\* exists unless O_CREAT is passed
OpenCanSucceed(fds, fname, fl, fs) ==
    /\ fname # NULL
    /\ FreeFds(fds) # {}
    /\ ("O_CREAT" \in fl \/ fname \in fs)

(***************************************************************************)
(* Processes.                                                              *)
(*   pc        where the process is: "read" (blocked in promptAndRead),    *)
(*             "wait" (in the waitpid loop of main), "report" (the loop    *)
(*             is over, at the printf after it), "interp" (about to        *)
(*             enter continueProcessingLine), "running"/"stopped" (the     *)
(*             program execv started),                                     *)
(*             "exited" (terminated, not yet reaped)                       *)
(*   childPid  the global childPid                                         *)
(*   line, lineIndex, args   the variables of main / doPipe; argsAt is the *)
(*             index of line that args[0] points at                        *)
(*   pipefd    the local pipefd of doPipe                                  *)
(*   status    the locals status and wait of main, as waitpid last set     *)
(*             them: the kind of status, its code, the process ID returned *)
(*   exit      how the process terminated and why                          *)
(*   ran       run() has been called in this process                       *)
(*   nPipes, nForks, opens   what the process has done since it was forked *)
(*   depth     how many forks of main lie between the first shell and it   *)
(***************************************************************************)
NoStatus == [kind |-> "none", code |-> 0, pid |-> 0]
NoExit == [kind |-> "none", code |-> 0, cause |-> "none"]
NoPipefd == <<0, 0>>

InitShell ==
    [ pc |-> "read", parent |-> 0, role |-> "shell", childPid |-> 0,
      line |-> <<>>, lineIndex |-> 0, args |-> <<>>, argsAt |-> 0,
      fds |-> InitFds, pipefd |-> NoPipefd, status |-> NoStatus,
      exit |-> NoExit, ran |-> FALSE, nPipes |-> 0, nForks |-> 0,
      opens |-> <<>>, stops |-> 0, stopNote |-> FALSE, depth |-> 0 ]

Pids == DOMAIN procs

NewPid == CHOOSE c \in (ShellPid + 1)..(ShellPid + MaxProcs) : c \notin Pids

CanFork == Cardinality(Pids) < MaxProcs

\* pipe objects some descriptor of some process still refers to
LivePipes ==
    {procs[q].fds[fd].pipe : q \in Pids, fd \in Fds} \ {0}

NewPipe == CHOOSE k \in 1..(MaxProcs * NumFds) : k \notin LivePipes

\* _exit(code)
Exit(rec, code, cause) ==
    [rec EXCEPT !.pc = "exited",
                !.exit = [kind |-> "exited", code |-> code, cause |-> cause]]

\* termination by a signal
Signaled(rec, sig, cause) ==
    [rec EXCEPT !.pc = "exited",
                !.exit = [kind |-> "signaled", code |-> sig, cause |-> cause]]

\* what fork() gives the child: a copy of the parent
ForkChild(rec, me, role, pc) ==
    [rec EXCEPT !.pc = pc, !.parent = me, !.role = role,
                !.nPipes = 0, !.nForks = 0, !.opens = <<>>,
                !.stops = 0, !.stopNote = FALSE]

\* Terminated processes whose parent is gone are reaped by init.  A program
\* started by execv whose parent is gone runs no code of the shell and no
\* process of the shell can wait for it: it leaves the model with them.
RECURSIVE Reap(_)
Reap(ps) ==
    LET gone == {q \in DOMAIN ps :
                    /\ ps[q].pc \in {"exited", "running", "stopped"}
                    /\ ps[q].parent # 0
                    /\ ps[q].parent \notin DOMAIN ps}
    IN  IF gone = {} THEN ps
        ELSE Reap([q \in (DOMAIN ps) \ gone |-> ps[q]])

Set(p, rec) == [procs EXCEPT ![p] = rec]

\* back in promptAndRead: the block of the loop body is left, its locals
\* (lineIndex, status, args) are gone and line is about to be overwritten
AtPrompt(rec) ==
    [rec EXCEPT !.pc = "read", !.line = <<>>, !.lineIndex = 0, !.args = <<>>,
                !.argsAt = 0, !.status = NoStatus, !.pipefd = NoPipefd]

\* the user types lines to the first shell, and to the shells nested less
\* than MaxNesting deep in it
Reads(p) == procs[p].pc = "read" /\ procs[p].depth < MaxNesting

(***************************************************************************)
(* run: execv(args[0], args), and _exit(1) when it fails.                  *)
(***************************************************************************)
ExecSucceeds(args) == args # <<>> /\ args[1] \in Executables

Run(rec) ==
    IF ExecSucceeds(rec.args)
    THEN [rec EXCEPT !.pc = "running", !.ran = TRUE]
    ELSE Exit([rec EXCEPT !.ran = TRUE], ExecFailStatus, "exec")

(***************************************************************************)
(* main: one pass of the loop, from promptAndRead to the fork.             *)
(***************************************************************************)
\* the loop condition of main is false: "exit" was typed, main returns 0
ReadExit(p) ==
    /\ Reads(p)
    /\ \E ln \in Lines :
        /\ At(ln, 0) = T_EXIT
        /\ procs' = Reap(Set(p, Exit([procs[p] EXCEPT !.line = ln], 0, "exit")))
    /\ handler' = {}
    /\ UNCHANGED files

\* a blank line is ignored
ReadBlank(p) ==
    /\ Reads(p)
    /\ \E ln \in Lines :
        /\ At(ln, 0) = NULL
        /\ procs' = Set(p, AtPrompt(procs[p]))
    /\ handler' = {}
    /\ UNCHANGED files

\* the record of the process once parseArgs has run on a fresh line
\* (as Parsed, with the loop of parseArgs stopping after one argument)
ParsedMut(rec, ln) ==
    [rec EXCEPT !.line = ln, !.lineIndex = ParseEnd(ln, 0),
                !.args = IF ParseArgs(ln, 0) = <<>> THEN <<>>
                         ELSE <<ParseArgs(ln, 0)[1]>>,
                !.argsAt = 0]
Parsed(rec, ln) ==
    [rec EXCEPT !.line = ln, !.lineIndex = ParseEnd(ln, 0),
                !.args = ParseArgs(ln, 0), !.argsAt = 0]

\* the files doRm unlinks: args[1] .. args[n]
RmTargets(args) == {args[i] : i \in 2..Len(args)}

\* ls and rm run in the calling process; no fork
ReadBuiltin(p) ==
    /\ Reads(p)
    /\ \E ln \in Lines :
        LET rec == Parsed(procs[p], ln) IN
        /\ At(ln, 0) \notin {NULL, T_EXIT}
        /\ rec.args # <<>>
        /\ rec.args[1] \in {T_LS, T_RM}
        /\ procs' = Set(p, AtPrompt(rec))
        /\ files' = IF rec.args[1] = T_RM THEN files \ RmTargets(rec.args)
                    ELSE files
    /\ handler' = {}

\* the first token is an operator: args[0] is NULL and strcmp(NULL, "ls")
\* is undefined; one outcome is the crash
ReadCrash(p) ==
    /\ Reads(p)
    /\ \E ln \in Lines :
        LET rec == Parsed(procs[p], ln) IN
        /\ At(ln, 0) \notin {NULL, T_EXIT}
        /\ rec.args = <<>>
        /\ procs' = Reap(Set(p, Signaled(rec, 11, "segv")))
    /\ handler' = {}
    /\ UNCHANGED files

\* the command is no built-in (or strcmp(NULL, ..) compared unequal)
NotBuiltin(args) == IF args = <<>> THEN TRUE ELSE args[1] \notin {T_LS, T_RM}

\* childPid = forkWrapper(): the child goes on to continueProcessingLine,
\* the parent to the waitpid loop
ReadFork(p) ==
    /\ Reads(p)
    /\ CanFork
    /\ \E ln \in Lines :
        LET rec == Parsed(procs[p], ln)
            c == NewPid
        IN
        /\ At(ln, 0) \notin {NULL, T_EXIT}
        /\ NotBuiltin(rec.args)
        /\ procs' = Set(p, [rec EXCEPT !.childPid = c, !.pc = "wait"])
                       @@ (c :> [ForkChild(rec, p, "job", "interp")
                                   EXCEPT !.childPid = 0, !.depth = @ + 1])
    /\ handler' = {}
    /\ UNCHANGED files

\* fork fails in forkWrapper: _exit(2) in the process that called it
ReadForkFail(p) ==
    /\ Reads(p)
    /\ \E ln \in Lines :
        LET rec == Parsed(procs[p], ln) IN
        /\ At(ln, 0) \notin {NULL, T_EXIT}
        /\ NotBuiltin(rec.args)
        /\ procs' = Reap(Set(p, Exit(rec, ForkFailStatus, "fork")))
    /\ handler' = {}
    /\ UNCHANGED files

(***************************************************************************)
(* main: the waitpid loop.                                                 *)
(***************************************************************************)
\* the loop of main ends on this status: WIFEXITED or WIFSIGNALED
\* (as WaitReleases, taking a stop for an end)
WaitReleasesMut(st) == st.kind \in {"exited", "signaled", "stopped"}
WaitReleases(st) == st.kind \in {"exited", "signaled"}

\* waitpid(childPid, &status, WUNTRACED) returns: the child has terminated
\* (and is reaped) or has stopped; the loop goes round again or ends
Wait(p) ==
    /\ procs[p].pc = "wait"
    /\ procs[p].childPid \in Pids
    /\ LET c == procs[p].childPid
           term == procs[c].pc = "exited"
           st == IF term
                 THEN [kind |-> procs[c].exit.kind, code |-> procs[c].exit.code,
                       pid |-> c]
                 ELSE [kind |-> "stopped", code |-> 0, pid |-> c]
           me == [procs[p] EXCEPT
                     !.status = st,
                     !.pc = IF WaitReleases(st) THEN "report" ELSE "wait"]
       IN
       /\ procs[c].parent = p
       /\ term \/ procs[c].stopNote
       /\ procs' =
            IF term
            THEN Reap([q \in Pids \ {c} |-> IF q = p THEN me ELSE procs[q]])
            ELSE [procs EXCEPT ![p] = me, ![c].stopNote = FALSE]
    /\ handler' = {}
    /\ UNCHANGED files

\* the loop is over: printf("Child %ld exited with status %d"), and on to
\* promptAndRead
Report(p) ==
    /\ procs[p].pc = "report"
    /\ procs' = Set(p, AtPrompt(procs[p]))
    /\ handler' = {}
    /\ UNCHANGED files

(***************************************************************************)
(* continueProcessingLine: one call of the recursion per step.             *)
(***************************************************************************)
Tok(p) == At(procs[p].line, procs[p].lineIndex)

\* base case: nothing left in line
InterpRun(p) ==
    /\ procs[p].pc = "interp"
    /\ Tok(p) = NULL
    /\ procs' = Reap(Set(p, Run(procs[p])))
    /\ handler' = {}
    /\ UNCHANGED files

\* what a redirection routine leaves behind, for the record the process
\* keeps in opens: the descriptor open returned, what it referred to, the
\* standard streams that refer to the same when the routine returns, and
\* whether the descriptor is closed then
OpenRecord(op, fname, fd, before, after) ==
    [ op |-> op, file |-> fname, fd |-> fd, desc |-> before[fd],
      streams |-> {st \in {STDIN_FILENO, STDOUT_FILENO, STDERR_FILENO} :
                      after[st] = before[fd]},
      closed |-> after[fd] = CLOSED ]

\* the process after a redirection routine opened fname as descriptor fd:
\* dup2 onto each stream of the routine, then close(file)
\* (as Redirected, with the close(file) left out)
RedirectedMut(rec, op, fname, fd) ==
    LET opened == [rec.fds EXCEPT ![fd] = FileDesc(fname, OpenFlags(op))]
        bound == [s \in Fds |-> IF s \in Rebinds(op) THEN opened[fd] ELSE opened[s]]
    IN  [rec EXCEPT !.fds = bound,
                    !.opens = Append(@, OpenRecord(op, fname, fd, opened, bound)),
                    !.lineIndex = @ + 2]
\* (as Redirected, with dup2 skipped for a stream that a file is bound to)
RedirectedKeepMut(rec, op, fname, fd) ==
    LET opened == [rec.fds EXCEPT ![fd] = FileDesc(fname, OpenFlags(op))]
        bound == [s \in Fds |->
                    IF s \in Rebinds(op) /\ opened[s].kind # "file"
                    THEN opened[fd] ELSE opened[s]]
    IN  [rec EXCEPT !.fds = Close(bound, fd),
                    !.opens = Append(@, OpenRecord(op, fname, fd, opened,
                                                   Close(bound, fd))),
                    !.lineIndex = @ + 2]
Redirected(rec, op, fname, fd) ==
    LET opened == [rec.fds EXCEPT ![fd] = FileDesc(fname, OpenFlags(op))]
        bound == [s \in Fds |-> IF s \in Rebinds(op) THEN opened[fd] ELSE opened[s]]
    IN  [rec EXCEPT !.fds = Close(bound, fd),
                    !.opens = Append(@, OpenRecord(op, fname, fd, opened,
                                                   Close(bound, fd))),
                    !.lineIndex = @ + 2]

\* the process after open failed in a redirection routine: _exit(1)
\* (as OpenFailed, with the _exit left out)
OpenFailedMut(rec) ==
    [rec EXCEPT !.lineIndex = @ + 2,
                !.exit = [kind |-> "none", code |-> 0, cause |-> "open"]]
OpenFailed(rec) ==
    Exit([rec EXCEPT !.lineIndex = @ + 1], OpenFailStatus, "open")

\* ">>", "2>", "&>", ">", "<": the next token is the file name
InterpRedirect(p) ==
    /\ procs[p].pc = "interp"
    /\ Tok(p) \in RedirOps
    /\ LET rec == procs[p]
           op == Tok(p)
           fname == At(rec.line, rec.lineIndex + 1)
       IN
       \E ok \in BOOLEAN :
          /\ ok => OpenCanSucceed(rec.fds, fname, OpenFlags(op), files)
          /\ procs' = IF ok
                      THEN Set(p, Redirected(rec, op, fname, LowestFree(rec.fds)))
                      ELSE Reap(Set(p, OpenFailed(rec)))
          /\ files' = IF ok /\ "O_CREAT" \in OpenFlags(op)
                      THEN files \cup {fname} ELSE files
    /\ handler' = {}

\* pipeWrapper fails: _exit(4)
InterpPipeFail(p) ==
    /\ procs[p].pc = "interp"
    /\ Tok(p) = T_PIPE
    /\ procs' = Reap(Set(p, Exit([procs[p] EXCEPT !.lineIndex = @ + 1],
                                 PipeFailStatus, "pipe")))
    /\ handler' = {}
    /\ UNCHANGED files

\* the descriptor table once pipe(pipefd) has succeeded
Piped(fds, k) ==
    LET r == LowestFree(fds)
        w == LowestFree([fds EXCEPT ![r] = PipeEnd(k, "r")])
    IN  [fds EXCEPT ![r] = PipeEnd(k, "r"), ![w] = PipeEnd(k, "w")]

PipeFds(fds) ==
    LET r == LowestFree(fds)
    IN  <<r, LowestFree([fds EXCEPT ![r] = PipeEnd(0, "r")])>>

\* forkWrapper fails in doPipe: _exit(2) in the process that called it
\* (as InterpForkFail, with the status of pipeWrapper in forkWrapper)
InterpForkFailMut(p) ==
    /\ procs[p].pc = "interp"
    /\ Tok(p) = T_PIPE
    /\ Cardinality(FreeFds(procs[p].fds)) >= 2
    /\ LET rec == procs[p] IN
       procs' = Reap(Set(p, Exit([rec EXCEPT !.lineIndex = @ + 1,
                                             !.pipefd = PipeFds(rec.fds),
                                             !.fds = Piped(rec.fds, NewPipe),
                                             !.nPipes = @ + 1],
                                 PipeFailStatus, "fork")))
    /\ handler' = {}
    /\ UNCHANGED files
InterpForkFail(p) ==
    /\ procs[p].pc = "interp"
    /\ Tok(p) = T_PIPE
    /\ Cardinality(FreeFds(procs[p].fds)) >= 2
    /\ LET rec == procs[p] IN
       procs' = Reap(Set(p, Exit([rec EXCEPT !.lineIndex = @ + 1,
                                             !.pipefd = PipeFds(rec.fds),
                                             !.fds = Piped(rec.fds, NewPipe),
                                             !.nPipes = @ + 1],
                                 ForkFailStatus, "fork")))
    /\ handler' = {}
    /\ UNCHANGED files

\* the parent branch of doPipe: close(pipefd[1]), dup2(pipefd[0], stdin),
\* parseArgs for the next command
\* (as PipeParent, with the close(pipefd[1]) left out)
PipeParentMut(rec) ==
    LET i == rec.lineIndex IN
    [rec EXCEPT !.fds = Dup2(rec.fds, rec.pipefd[1], STDIN_FILENO),
                !.args = ParseArgs(rec.line, i), !.argsAt = i,
                !.lineIndex = ParseEnd(rec.line, i)]
PipeParent(rec) ==
    LET i == rec.lineIndex IN
    [rec EXCEPT !.fds = Dup2(Close(rec.fds, rec.pipefd[2]), rec.pipefd[1],
                             STDIN_FILENO),
                !.args = ParseArgs(rec.line, i), !.argsAt = i,
                !.lineIndex = ParseEnd(rec.line, i)]

\* the child branch of doPipe: close(pipefd[0]), dup2(pipefd[1], stdout),
\* run(p1Args)
\* (as PipeChild, with the dup2 left out)
PipeChildMut(rec) ==
    Run([rec EXCEPT !.fds = Close(rec.fds, rec.pipefd[1])])
PipeChild(rec) ==
    Run([rec EXCEPT !.fds = Dup2(Close(rec.fds, rec.pipefd[1]), rec.pipefd[2],
                                 STDOUT_FILENO)])

\* "|": doPipe makes the pipe and forks.  The child runs its branch, which
\* touches its own descriptor table only and ends in run; the parent runs
\* its branch and is back at continueProcessingLine.
InterpPipe(p) ==
    /\ procs[p].pc = "interp"
    /\ Tok(p) = T_PIPE
    /\ Cardinality(FreeFds(procs[p].fds)) >= 2
    /\ CanFork
    /\ LET rec == procs[p]
           c == NewPid
           both == [rec EXCEPT !.lineIndex = @ + 1,
                               !.pipefd = PipeFds(rec.fds),
                               !.fds = Piped(rec.fds, NewPipe)]
       IN
       procs' = Reap(Set(p, PipeParent([both EXCEPT !.nPipes = @ + 1,
                                                    !.nForks = @ + 1]))
                        @@ (c :> PipeChild(ForkChild(both, p, "lhs", "interp"))))
    /\ handler' = {}
    /\ UNCHANGED files

\* no branch of continueProcessingLine matches the token: every call of the
\* recursion returns, and so does the call in main, which goes on to
\* promptAndRead
InterpReturn(p) ==
    /\ procs[p].pc = "interp"
    /\ Tok(p) \notin Operators \cup {NULL}
    /\ procs' = Set(p, AtPrompt(procs[p]))
    /\ handler' = {}
    /\ UNCHANGED files

(***************************************************************************)
(* The programs execv started: they stop, continue and terminate as they   *)
(* and the user please.                                                    *)
(***************************************************************************)
ProgExit(p) ==
    /\ procs[p].pc = "running"
    /\ procs' = Reap(Set(p, Exit(procs[p], 0, "prog")))
    /\ handler' = {}
    /\ UNCHANGED files

ProgKilled(p) ==
    /\ procs[p].pc \in {"running", "stopped"}
    /\ procs' = Reap(Set(p, Signaled(procs[p], SIGINT, "prog")))
    /\ handler' = {}
    /\ UNCHANGED files

\* a stop shows in the model when the parent is in waitpid for the process;
\* no process of the shell sees any other
ProgStop(p) ==
    /\ procs[p].pc = "running"
    /\ procs[p].parent \in Pids
    /\ procs[procs[p].parent].pc = "wait"
    /\ procs[procs[p].parent].childPid = p
    /\ procs[p].stops < MaxStops
    /\ procs' = Set(p, [procs[p] EXCEPT !.pc = "stopped", !.stopNote = TRUE,
                                        !.stops = @ + 1])
    /\ handler' = {}
    /\ UNCHANGED files

ProgCont(p) ==
    /\ procs[p].pc = "stopped"
    /\ procs' = Set(p, [procs[p] EXCEPT !.pc = "running"])
    /\ handler' = {}
    /\ UNCHANGED files

(***************************************************************************)
(* signalHandler, run on SIGINT in a process that is in the loop of main.  *)
(***************************************************************************)
\* kill(pid, sig), as the C library declares it
KillCall(pid, sig) == [target |-> pid, signo |-> sig]

\* the kill calls the handler makes
SignalHandler(childPid) ==
    IF childPid > 0 THEN {KillCall(SIGINT, childPid)} ELSE {}

Interrupt(p) ==
    /\ procs[p].pc \in {"read", "wait", "report"}
    /\ handler' = {[by |-> p, calls |-> SignalHandler(procs[p].childPid)]}
    /\ UNCHANGED <<procs, files>>

(***************************************************************************)
(* The system.                                                             *)
(***************************************************************************)
Init ==
    /\ procs = (ShellPid :> InitShell)
    /\ files \in {{T_F}, {T_F, T_G}}
    /\ handler = {}

Next ==
    \/ \E p \in Pids : ReadExit(p)
    \/ \E p \in Pids : ReadBlank(p)
    \/ \E p \in Pids : ReadBuiltin(p)
    \/ \E p \in Pids : ReadCrash(p)
    \/ \E p \in Pids : ReadFork(p)
    \/ \E p \in Pids : ReadForkFail(p)
    \/ \E p \in Pids : Wait(p)
    \/ \E p \in Pids : Report(p)
    \/ \E p \in Pids : InterpRun(p)
    \/ \E p \in Pids : InterpRedirect(p)
    \/ \E p \in Pids : InterpPipeFail(p)
    \/ \E p \in Pids : InterpForkFail(p)
    \/ \E p \in Pids : InterpPipe(p)
    \/ \E p \in Pids : InterpReturn(p)
    \/ \E p \in Pids : ProgExit(p)
    \/ \E p \in Pids : ProgKilled(p)
    \/ \E p \in Pids : ProgStop(p)
    \/ \E p \in Pids : ProgCont(p)
    \/ \E p \in Pids : Interrupt(p)

Spec == Init /\ [][Next]_vars

(***************************************************************************)
(* Vocabulary of the claims.                                               *)
(***************************************************************************)
\* the process runs the loop of main
InMainLoop(p) == procs[p].pc \in {"read", "wait", "report"}

\* the 0-based indices of line that hold "|"
PipeAt(line) == {i \in 0..(Len(line) - 1) : At(line, i) = T_PIPE}

\* cmd1 | cmd2 | ... | cmdN with N >= 2: plain arguments and "|" only, no
\* command empty
PipelineForm(line) ==
    /\ PipeAt(line) # {}
    /\ \A i \in 0..(Len(line) - 1) :
          \/ At(line, i) = T_PIPE
          \/ ~IsSpecial(At(line, i)) /\ At(line, i) \notin Operators
    /\ \A i \in PipeAt(line) :
          /\ i > 0 /\ i < Len(line) - 1
          /\ i + 1 \notin PipeAt(line)

NStages(line) == Cardinality(PipeAt(line)) + 1

\* the indices of the first tokens of the stages of line, from index i on
RECURSIVE StartsFrom(_, _)
StartsFrom(line, i) ==
    IF i >= Len(line) THEN <<>>
    ELSE IF At(line, i) = T_PIPE THEN <<i + 1>> \o StartsFrom(line, i + 1)
    ELSE StartsFrom(line, i + 1)

\* the index of the first token of each stage k (k = 1 .. N)
StageStarts(line) == <<0>> \o StartsFrom(line, 0)

\* the tokens of the stage that starts at index from
StageCmd(line, from) ==
    LET ends == {i \in PipeAt(line) : i >= from}
        to == IF ends = {} THEN Len(line)
              ELSE CHOOSE i \in ends : \A j \in ends : i <= j
    IN  SubSeq(line, from + 1, to)

\* the processes of the job whose first process is t: t and the children
\* doPipe forked from it
Job(t) == {t} \cup {q \in Pids : procs[q].parent = t /\ procs[q].role = "lhs"}

\* a job process that has run the whole of a pipeline line
PipelineDone(t) ==
    /\ procs[t].role = "job"
    /\ procs[t].ran
    /\ PipelineForm(procs[t].line)

(***************************************************************************)
(* C1.  Whenever signalHandler runs in a process of the main loop whose    *)
(* childPid is > 0, it sends SIGINT to the process childPid names, and     *)
(* nothing else.                                                           *)
(***************************************************************************)
C1_RelayToForeground ==
    \A h \in handler :
        (InMainLoop(h.by) /\ procs[h.by].childPid > 0)
            => h.calls = {[target |-> procs[h.by].childPid, signo |-> SIGINT]}

(***************************************************************************)
(* C2.  In every state where a shell is reading the next line, its         *)
(* childPid is the sentinel 0.                                             *)
(***************************************************************************)
C2_ClearedAtPrompt ==
    \A p \in Pids : procs[p].pc = "read" => procs[p].childPid = 0

(***************************************************************************)
(* C3.  When the child handed to continueProcessingLine has run a line     *)
(* cmd1 | ... | cmdN through to its own call of run, it has made N-1 pipes *)
(* and N-1 forks, every stage has been launched by exactly one process of  *)
(* the job, the N launches are in N processes, and for each k < N stdout   *)
(* of stage k's process is the write end, and stdin of stage k+1's process *)
(* the read end, of one pipe, a different pipe for each k.                 *)
(***************************************************************************)
C3_PipelineShape ==
    \A t \in Pids :
        PipelineDone(t) =>
            LET line == procs[t].line
                n == NStages(line)
                starts == StageStarts(line)
                job == Job(t)
                \* for each stage, the processes of the job that called run
                \* with the stage's command
                launchers ==
                    [k \in 1..n |->
                        {q \in job : /\ procs[q].ran
                                     /\ procs[q].argsAt = starts[k]
                                     /\ procs[q].args = StageCmd(line, starts[k])}]
                L == [k \in 1..n |-> CHOOSE q \in launchers[k] : TRUE]
                out == [k \in 1..n |-> procs[L[k]].fds[STDOUT_FILENO]]
            IN
            /\ procs[t].nPipes = n - 1
            /\ procs[t].nForks = n - 1
            /\ Cardinality(job) = n
            /\ \A k \in 1..n : Cardinality(launchers[k]) = 1
            /\ \A k \in 1..(n - 1) :
                  /\ out[k].kind = "pipe"
                  /\ out[k].end = "w"
                  /\ procs[L[k + 1]].fds[STDIN_FILENO] = PipeEnd(out[k].pipe, "r")
            /\ \A j, k \in 1..(n - 1) : j # k => out[j].pipe # out[k].pipe

\* a three-stage pipeline has been run through, all three programs started
C3_Witness ==
    \E t \in Pids :
        /\ PipelineDone(t)
        /\ NStages(procs[t].line) = 3
        /\ \A q \in Job(t) : procs[q].pc = "running"

(***************************************************************************)
(* C4.  When a stage of a pipeline cmd1 | ... | cmdN is launched, every    *)
(* descriptor of its process that refers to a pipe end refers to an end    *)
(* the process owns: the read end its stdin is bound to or the write end   *)
(* its stdout is bound to.  So the process launching cmd_k holds nothing   *)
(* of the pipe between cmd_{k-2} and cmd_{k-1}.                            *)
(***************************************************************************)
C4_NoPipeLeak ==
    \A t \in Pids :
        (procs[t].role = "job" /\ PipelineForm(procs[t].line)) =>
            \A q \in Job(t) :
                procs[q].ran =>
                    \A fd \in Fds :
                        LET d == procs[q].fds[fd] IN
                        d.kind = "pipe" =>
                            \/ d.end = "r" /\ d = procs[q].fds[STDIN_FILENO]
                            \/ d.end = "w" /\ d = procs[q].fds[STDOUT_FILENO]

(***************************************************************************)
(* C5.  When the process interpreting a line with exactly one redirection  *)
(* operator calls run, it has made one open, of the file named after the   *)
(* operator, with the flags the table gives for the operator; the routine  *)
(* left each stream the table gives bound to that file and the descriptor  *)
(* open returned closed; and on a line without a pipe that is how run      *)
(* finds the streams and the descriptor.                                   *)
(***************************************************************************)
\* the table of the redirection modes: flags and streams
TableFlags(op) ==
    IF op = T_APPEND THEN {"O_CREAT", "O_APPEND", "O_WRONLY"}
    ELSE IF op = T_LT THEN {"O_RDONLY"}
    ELSE {"O_CREAT", "O_TRUNC", "O_WRONLY"}

TableStreams(op) ==
    IF op = T_LT THEN {0}
    ELSE IF op = T_ERR THEN {2}
    ELSE IF op = T_BOTH THEN {1, 2}
    ELSE {1}

RedirAt(line) == {i \in 0..(Len(line) - 1) : At(line, i) \in RedirOps}

OneRedirection(line) == Cardinality(RedirAt(line)) = 1

C6_OpenFailureExits ==
    \A q \in Pids :
        procs[q].exit.cause = "open" =>
            /\ procs[q].pc = "exited"
            /\ procs[q].exit.kind = "exited"
            /\ procs[q].exit.code = OpenFailStatus
            /\ ~procs[q].ran

\* "<" named a file that does not exist and the open failed
C6_Witness ==
    \E q \in Pids :
        /\ procs[q].exit.cause = "open"
        /\ procs[q].lineIndex > 0
        /\ At(procs[q].line, procs[q].lineIndex - 1) = T_LT
        /\ At(procs[q].line, procs[q].lineIndex) \notin files

(***************************************************************************)
(* C7.  The exit statuses of exec failure, fork failure, pipe failure and  *)
(* open failure are non-zero and pairwise distinct: two processes that     *)
(* failed for different reasons have different statuses.                   *)
(***************************************************************************)
Failures == {"exec", "fork", "pipe", "open"}

C7_DistinctStatuses ==
    \A p, q \in Pids :
        (/\ procs[p].exit.cause \in Failures
         /\ procs[q].exit.cause \in Failures
         /\ procs[p].exit.cause # procs[q].exit.cause)
            => /\ procs[p].exit.code # 0
               /\ procs[q].exit.code # 0
               /\ procs[p].exit.code # procs[q].exit.code

(***************************************************************************)
(* C8.  parseArgs stops on a token if and only if the token is one of the  *)
(* six operators: in a process that has just extracted a command, no       *)
(* argument is an operator and the token the cursor is on is an operator   *)
(* or the end of the line.                                                 *)
(***************************************************************************)
JustParsed(p) ==
    /\ procs[p].pc = "interp"
    /\ procs[p].lineIndex = procs[p].argsAt + Len(procs[p].args)

C8_ExactOperatorMatch ==
    \A p \in Pids :
        JustParsed(p) =>
            /\ \A i \in 1..Len(procs[p].args) : procs[p].args[i] \notin Operators
            /\ Tok(p) \in Operators \cup {NULL}

(***************************************************************************)
(* C9.  When signalHandler runs in a shell that has no foreground child    *)
(* that is running and not yet collected (it is at the prompt, or past the *)
(* waitpid loop), the handler sends no signal.                             *)
(***************************************************************************)
C9_NoChildNoSignal ==
    \A h \in handler :
        procs[h.by].pc \in {"read", "report"} => h.calls = {}

(***************************************************************************)
(* C10.  A shell is past the waitpid loop only with a status from waitpid  *)
(* for the process childPid names that says exited or signaled; with a     *)
(* stopped status it is still in the loop.                                 *)
(***************************************************************************)
C10_ReleasedOnTerminalOnly ==
    \A p \in Pids :
        /\ procs[p].pc = "report" =>
              /\ procs[p].status.kind \in {"exited", "signaled"}
              /\ procs[p].status.pid = procs[p].childPid
        /\ procs[p].status.kind = "stopped" => procs[p].pc = "wait"

\* waitpid has reported a stop, and the shell is waiting again
C10_Witness ==
    \E p \in Pids :
        /\ procs[p].pc = "wait"
        /\ procs[p].status.kind = "stopped"
        /\ procs[p].status.pid = procs[p].childPid

(***************************************************************************)
(* C11.  When run is called for a command in which a stream is redirected  *)
(* more than once, the stream is bound to the file of the last of these    *)
(* redirections, opened with that redirection's flags, and to no earlier   *)
(* target.                                                                 *)
(***************************************************************************)
\* the indices of the redirection operators of line that rebind stream st
StreamRedirs(line, st) == {i \in RedirAt(line) : st \in TableStreams(At(line, i))}

LastOf(S) == CHOOSE i \in S : \A j \in S : j <= i

C11_LastWriteWins ==
    \A q \in Pids :
        (procs[q].role = "job" /\ procs[q].ran /\ PipeAt(procs[q].line) = {}) =>
            \A st \in {STDIN_FILENO, STDOUT_FILENO, STDERR_FILENO} :
                LET line == procs[q].line
                    at == StreamRedirs(line, st)
                    last == LastOf(at)
                IN  Cardinality(at) > 1 =>
                        /\ procs[q].fds[st]
                              = FileDesc(At(line, last + 1), TableFlags(At(line, last)))
                        /\ \A i \in at \ {last} :
                              At(line, i + 1) # At(line, last + 1)
                                  => procs[q].fds[st].file # At(line, i + 1)

\* a program was started by "/a > f > g", its stdout bound to g
C11_Witness ==
    \E q \in Pids :
        /\ procs[q].pc = "running"
        /\ procs[q].line = <<T_A, T_GT, T_F, T_GT, T_G>>
        /\ procs[q].fds[STDOUT_FILENO].file = T_G

(***************************************************************************)
(* C12.  No process ever calls run (execv) with a command whose first      *)
(* argument is the name of a built-in, ls or rm, at whatever place of the  *)
(* line the command stands.                                                *)
(***************************************************************************)
Builtins == {T_LS, T_RM}

C12_BuiltinNeverLaunched ==
    \A q \in Pids :
        procs[q].ran =>
            IF procs[q].args = <<>> THEN TRUE
            ELSE procs[q].args[1] \notin Builtins

(***************************************************************************)
(* C13.  For a line without operators whose command goes to the launcher   *)
(* (it is not blank, not exit and no built-in): while the process that     *)
(* read the line is in its waitpid loop, the child it forked for the line  *)
(* is not in the loop of main and has forked nothing; once the child is    *)
(* through continueProcessingLine it has called run, with the whole line   *)
(* as the argument vector; and no process in the loop of main has called   *)
(* run.                                                                    *)
(***************************************************************************)
\* a line of plain arguments that main hands to a forked child
LauncherLine(line) ==
    /\ line # <<>>
    /\ \A i \in 1..Len(line) : ~IsSpecial(line[i]) /\ line[i] \notin Operators
    /\ line[1] \notin Builtins \cup {T_EXIT}

C13_PlainLineRunsOnce ==
    /\ \A p \in Pids : InMainLoop(p) => ~procs[p].ran
    /\ \A p \in Pids :
          (procs[p].pc = "wait" /\ LauncherLine(procs[p].line)) =>
              LET q == procs[p].childPid IN
              /\ q \in Pids
              /\ procs[q].parent = p
              /\ procs[q].role = "job"
              /\ procs[q].line = procs[p].line
              /\ procs[q].pc \in {"interp", "running", "stopped", "exited"}
              /\ procs[q].nForks = 0
              /\ Job(q) = {q}
              /\ procs[q].pc # "interp" =>
                    /\ procs[q].ran
                    /\ procs[q].args = procs[q].line
                    /\ procs[q].exit.cause \in {"none", "exec", "prog"}

\* "/a f" was typed: the child runs /a with both arguments, the shell waits
C13_Witness ==
    \E q \in Pids :
        /\ procs[q].line = <<T_A, T_F>>
        /\ procs[q].role = "job"
        /\ procs[q].pc = "running"
        /\ procs[q].args = <<T_A, T_F>>
        /\ procs[procs[q].parent].pc = "wait"

(***************************************************************************)
(* C14.  A fork failure in doPipe ends the process that called fork, the   *)
(* child that main forked for the line, with the fork-failure status,      *)
(* while the process that read the line is in its waitpid loop; when that  *)
(* process collects the child it leaves the loop with the child's status   *)
(* and goes on to the next prompt.                                         *)
(***************************************************************************)
\* q ended in the forkWrapper call of doPipe
ForkFailedInPipe(q) ==
    /\ procs[q].exit.cause = "fork"
    /\ procs[q].lineIndex > 0
    /\ At(procs[q].line, procs[q].lineIndex - 1) = T_PIPE

\* q is collected by waitpid in this step
Collected(q) == q \in Pids /\ q \notin DOMAIN procs'

C14_ForkFailureEndsCaller ==
    /\ [](\A q \in Pids :
            ForkFailedInPipe(q) =>
                /\ procs[q].pc = "exited"
                /\ procs[q].exit.kind = "exited"
                /\ procs[q].exit.code = ForkFailStatus
                /\ procs[q].role = "job"
                /\ procs[q].parent \in Pids
                /\ procs[procs[q].parent].pc = "wait"
                /\ procs[procs[q].parent].childPid = q)
    /\ [][\A q \in Pids :
            (ForkFailedInPipe(q) /\ Collected(q)) =>
                LET p == procs[q].parent IN
                /\ p \in DOMAIN procs'
                /\ procs'[p].pc = "report"
                /\ procs'[p].status
                      = [kind |-> "exited", code |-> ForkFailStatus, pid |-> q]]_vars

\* the first shell has left its waitpid loop with the fork-failure status
\* of the child that interpreted a line with a pipe
C14_Witness ==
    /\ procs[ShellPid].pc = "report"
    /\ PipeAt(procs[ShellPid].line) # {}
    /\ procs[ShellPid].status.kind = "exited"
    /\ procs[ShellPid].status.code = ForkFailStatus

\* the claim as stated: when a fork failure in doPipe is collected, the
\* first shell terminates with the fork-failure status
C14_ForkFailureFatal ==
    [][\A q \in Pids :
        (ForkFailedInPipe(q) /\ Collected(q)) =>
            /\ procs'[ShellPid].pc = "exited"
            /\ procs'[ShellPid].exit.code = ForkFailStatus]_vars

(***************************************************************************)
(* C15.  A process that entered continueProcessingLine (the child forked   *)
(* by main, or a process forked by doPipe) is never in the loop of main:   *)
(* it is interpreting the line, runs the program it launched, or has       *)
(* terminated.  So only the first shell ever prompts for a line.           *)
(***************************************************************************)
C15_NeverBackInLoop ==
    \A p \in Pids : procs[p].role \in {"job", "lhs"} => ~InMainLoop(p)

(***************************************************************************)
(* C16.  The write end of a pipe is open in one live process only, the     *)
(* process doPipe forked for the left-hand command, which has it as its    *)
(* stdout.  The process that goes on as the reader holds no write end when *)
(* doPipe has returned, so none of the processes it forks later and no     *)
(* program it launches does: once the left-hand process has terminated no  *)
(* live process holds the write end.                                       *)
(***************************************************************************)
Live(q) == procs[q].pc # "exited"

Holds(q, d) == \E fd \in Fds : procs[q].fds[fd] = d

WriteEnds(q) ==
    {procs[q].fds[fd] : fd \in {g \in Fds : /\ procs[q].fds[g].kind = "pipe"
                                            /\ procs[q].fds[g].end = "w"}}

C16_WriteEndInWriterOnly ==
    \A q \in Pids :
        Live(q) =>
            \A d \in WriteEnds(q) :
                /\ procs[q].role = "lhs"
                /\ procs[q].fds[STDOUT_FILENO] = d
                /\ \A r \in Pids : (Live(r) /\ Holds(r, d)) => r = q

\* the left-hand program of a pipe has terminated; the reader runs with the
\* read end as stdin and no live process holds the write end
C16_Witness ==
    \E t, q \in Pids :
        /\ procs[q].role = "lhs"
        /\ procs[q].parent = t
        /\ procs[q].pc = "exited"
        /\ procs[q].exit.cause = "prog"
        /\ procs[q].fds[STDOUT_FILENO].kind = "pipe"
        /\ procs[t].pc = "running"
        /\ procs[t].fds[STDIN_FILENO]
              = PipeEnd(procs[q].fds[STDOUT_FILENO].pipe, "r")
        /\ \A r \in Pids : Live(r) => ~Holds(r, procs[q].fds[STDOUT_FILENO])

(***************************************************************************)
(* C17.  In every process the cursor lineIndex is at most the index of the *)
(* sentinel that ends the line, and while the process works on one line    *)
(* the cursor never decreases; this includes the lines whose last token is *)
(* an operator.                                                            *)
(***************************************************************************)
C17_CursorBounded ==
    /\ [](\A p \in Pids : procs[p].lineIndex <= Len(procs[p].line))
    /\ [][\A p \in Pids \cap DOMAIN procs' :
            (procs[p].line # <<>> /\ procs'[p].line = procs[p].line)
                => procs'[p].lineIndex >= procs[p].lineIndex]_vars

\* the line ends in a redirection operator: the cursor is on the sentinel,
\* which was passed to open as the file name, and the process has ended
C17_Witness ==
    \E p \in Pids :
        /\ procs[p].line \in TrailingOpLines
        /\ procs[p].line[Len(procs[p].line)] \in RedirOps
        /\ procs[p].lineIndex = Len(procs[p].line)
        /\ procs[p].exit.cause = "open"

(***************************************************************************)
(* C18.  The first shell terminates only because exit was typed or because *)
(* its own fork failed: no other line, a line whose first token is an      *)
(* operator included, ends it.                                             *)
(***************************************************************************)
C18_SupervisorSurvives ==
    procs[ShellPid].pc = "exited" =>
        /\ procs[ShellPid].exit.kind = "exited"
        /\ procs[ShellPid].exit.cause \in {"exit", "fork"}

(***************************************************************************)
(* C19.  When run is called for a command that stands after a "|", none of *)
(* the three standard streams of the process is bound to the file of a     *)
(* redirection written before that "|" (unless a redirection of the        *)
(* command itself names the same file).                                    *)
(***************************************************************************)
C19_RedirectionScope ==
    \A q \in Pids :
        (procs[q].ran /\ procs[q].argsAt > 0) =>
            LET line == procs[q].line
                own == {At(line, j + 1) : j \in {k \in RedirAt(line) : k > procs[q].argsAt}}
            IN
            \A i \in RedirAt(line) :
                (i < procs[q].argsAt /\ At(line, i + 1) \notin own) =>
                    \A st \in {STDIN_FILENO, STDOUT_FILENO, STDERR_FILENO} :
                        procs[q].fds[st].kind = "file"
                            => procs[q].fds[st].file # At(line, i + 1)

====
